---- MODULE Spec2Model ----
(***************************************************************************)
(* Model of manim-tools-pseudocode.py: the pseudocode rule (declaration    *)
(* search, block segmentation, indentation removal), the pack codec (JSON, *)
(* zlib container, hex), the pack object and the pseudocode decorator.     *)
(*                                                                         *)
(* A Python str is a sequence of one-character strings, a Python list a    *)
(* sequence, a block the pair <<label, lines>>.  A call either returns a   *)
(* value or raises: Return(v) / Raise(name of the exception).              *)
(***************************************************************************)
EXTENDS Integers, Sequences, FiniteSets, TLC

VARIABLES
  pc,                   \* position of the modelled program
  source_lines,         \* what inspect.getsourcelines(func)[0] yields
  func_name,            \* func.__name__
  has_source_lines,     \* FALSE when inspect.getsourcelines raises OSError
  dumped_pack_encoded,  \* pseudocode.dumped_pseudocode_pack_encoded
  sourcepack,           \* outcome of pseudocode_rule.deal_with
  codec_pack,           \* a pack handed to the codec
  codec_encoded,        \* its encoding
  codec_decoded,        \* outcome of pack_decode_from on that encoding
  pack,                 \* the pseudocode_pack_base instance (its attributes)
  warn_log,             \* the operations during which warn() was called
  accesses,             \* accessor calls made on the instance so far
  call,                 \* the last call made on the instance and its argument
  result,               \* outcome of that call
  depth                 \* frames of the origin_pack_encoded property on the stack

vars == <<pc, source_lines, func_name, has_source_lines, dumped_pack_encoded,
          sourcepack, codec_pack, codec_encoded, codec_decoded, pack,
          warn_log, accesses, call, result, depth>>

\* ---------------------------------------------------------------- bounds
MaxLines == 3
MaxBlocks == 2
MaxBodyLines == 2
MaxAccesses == 2
RecursionLimit == 3

\* ------------------------------------------------------- call outcomes
NoExc == "none"

Return(v) == [exc |-> NoExc, value |-> v]

Raise(e) == [exc |-> e, value |-> <<>>]

None == [exc |-> "unset", value |-> <<>>]

NoCall == [op |-> "none", index |-> <<>>, return_line |-> FALSE]

\* ------------------------------------------------------- str methods
IsSpaceChar(c) == c \in {" ", "\t", "\n"}

isspace(line) == Len(line) > 0 /\ \A i \in 1..Len(line) : IsSpaceChar(line[i])

RECURSIVE rstrip(_)
rstrip(line) ==
  IF Len(line) > 0 /\ IsSpaceChar(line[Len(line)])
  THEN rstrip(SubSeq(line, 1, Len(line) - 1))
  ELSE line

RECURSIVE lstrip(_)
lstrip(line) ==
  IF Len(line) > 0 /\ IsSpaceChar(line[1]) THEN lstrip(Tail(line)) ELSE line

strip(line) == lstrip(rstrip(line))

\* sub occurs in line at the 1-based position i
HasAt(line, i, sub) ==
  /\ i >= 1
  /\ i + Len(sub) - 1 <= Len(line)
  /\ \A k \in 1..Len(sub) : line[i + k - 1] = sub[k]

\* str.find: the lowest 0-based index of sub in line, -1 when absent
find(line, sub) ==
  LET hits == {i \in 1..(Len(line) + 1) : HasAt(line, i, sub)}
  IN IF hits = {} THEN -1
     ELSE (CHOOSE i \in hits : \A j \in hits : i <= j) - 1

\* ------------------------------------------------------- the patterns
\* the position after a greedy \s* that starts at position i
RECURSIVE SkipSpace(_, _)
SkipSpace(line, i) ==
  IF i <= Len(line) /\ IsSpaceChar(line[i]) THEN SkipSpace(line, i + 1) ELSE i

\* the declaration pattern without the function's name in it
start_marker_fullmatch_any_name(line, name) ==
  LET p == SkipSpace(line, 1)
  IN /\ HasAt(line, p, <<"d", "e", "f">>)
     /\ \E r \in (p + 3)..Len(line) : line[r] = "("
     /\ Len(line) >= p + 5
     /\ line[Len(line) - 1] = ")"
     /\ line[Len(line)] = ":"

\* re.compile("\s*def\s*{func_name}\(.*\):").fullmatch(line) is not None
start_marker_fullmatch(line, name) ==
  LET p == SkipSpace(line, 1)
      q == SkipSpace(line, p + 3)
      r == q + Len(name)
  IN /\ HasAt(line, p, <<"d", "e", "f">>)
     /\ HasAt(line, q, name)
     /\ HasAt(line, r, <<"(">>)
     /\ Len(line) >= r + 2
     /\ line[Len(line) - 1] = ")"
     /\ line[Len(line)] = ":"

\* marker_code_compiled.fullmatch(line) is not None, for "\s*###\s*.*\s*"
marker_fullmatch(line) == HasAt(line, SkipSpace(line, 1), <<"#", "#", "#">>)

\* clip_pattern("start_marker", line): search "\(.*\):", slice(1, -2), strip
clip_start_marker(line) ==
  LET closes == {k \in 1..(Len(line) - 1) : line[k] = ")" /\ line[k + 1] = ":"}
      opens == {i \in 1..Len(line) : line[i] = "(" /\ \E k \in closes : k > i}
      i == CHOOSE o \in opens : \A o2 \in opens : o <= o2
      k == CHOOSE c \in closes : \A c2 \in closes : c >= c2
  IN strip(SubSeq(line, i + 1, k - 1))

\* clip_pattern("marker", line): search "###\s*.*\s*", slice(3, None), strip
clip_marker(line) ==
  LET hits == {i \in 1..Len(line) : HasAt(line, i, <<"#", "#", "#">>)}
      i == CHOOSE h \in hits : \A h2 \in hits : h <= h2
  IN strip(SubSeq(line, i + 3, Len(line)))

\* ------------------------------------------------------- deal_with
\* [line.rstrip() for line in pseudocode_sourcelines if not line.isspace()]
RECURSIVE CleanLines(_)
CleanLines(lines) ==
  IF lines = <<>> THEN <<>>
  ELSE IF isspace(Head(lines)) THEN CleanLines(Tail(lines))
  ELSE <<rstrip(Head(lines))>> \o CleanLines(Tail(lines))

\* the while loop over head; 0 stands for running past the end of the list
RECURSIVE FindHead(_, _, _)
FindHead(lines, name, head) ==
  IF head > Len(lines) THEN 0
  ELSE IF start_marker_fullmatch(lines[head], name) THEN head
  ELSE FindHead(lines, name, head + 1)

line_indent(line) == find(line, lstrip(line))

\* the for loop over pseudocode_sourcelines[head + 1:]
RECURSIVE Segment(_, _, _, _)
Segment(lines, i, pk, indents) ==
  IF i > Len(lines) THEN [pack |-> pk, indents |-> indents]
  ELSE IF marker_fullmatch(lines[i])
  THEN Segment(lines, i + 1, Append(pk, <<clip_marker(lines[i]), <<>>>>), indents)
  ELSE LET last == pk[Len(pk)]
           grown == <<last[1], Append(last[2], lines[i])>>
       IN Segment(lines, i + 1, [pk EXCEPT ![Len(pk)] = grown],
                  Append(indents, line_indent(lines[i])))

\* the indentation of the first body line instead of the least one
first_of(indents) == indents[1]

\* min(indents) of a non-empty list
least_of(indents) ==
  CHOOSE m \in {indents[i] : i \in 1..Len(indents)} :
    \A i \in 1..Len(indents) : m <= indents[i]

\* line[least_indent:]
SliceFrom(line, n) == SubSeq(line, n + 1, Len(line))

RECURSIVE SliceAll(_, _)
SliceAll(lines, n) ==
  IF lines = <<>> THEN <<>>
  ELSE <<SliceFrom(Head(lines), n)>> \o SliceAll(Tail(lines), n)

\* for block in pack: block[-1] = [line[least_indent:] for line in block[-1]]
RECURSIVE RemoveIndent(_, _)
RemoveIndent(pk, least_indent) ==
  IF pk = <<>> THEN <<>>
  ELSE <<<<Head(pk)[1], SliceAll(Head(pk)[2], least_indent)>>>>
       \o RemoveIndent(Tail(pk), least_indent)

deal_with(pseudocode_sourcelines, name) ==
  LET lines == CleanLines(pseudocode_sourcelines)
      head == FindHead(lines, name, 1)
  IN IF head = 0 THEN Raise("IndexError")
     ELSE LET start_marker == clip_start_marker(lines[head])
              seg == Segment(lines, head + 1, <<<<start_marker, <<>>>>>>, <<>>)
          IN IF seg.indents = <<>> THEN Raise("ValueError")
             ELSE Return(RemoveIndent(seg.pack, least_of(seg.indents)))

\* ------------------------------------------------------- the pack codec
\* the characters of the model and their code points (one UTF-8 byte each)
CodeTable ==
  {<<"\t", 9>>, <<"\n", 10>>, <<" ", 32>>, <<"\"", 34>>, <<"#", 35>>,
   <<"(", 40>>, <<")", 41>>, <<",", 44>>, <<":", 58>>, <<"[", 91>>,
   <<"\\", 92>>, <<"]", 93>>, <<"a", 97>>, <<"b", 98>>, <<"d", 100>>,
   <<"e", 101>>, <<"f", 102>>, <<"g", 103>>, <<"n", 110>>, <<"q", 113>>,
   <<"s", 115>>, <<"t", 116>>, <<"x", 120>>, <<"y", 121>>}

Ord(c) == (CHOOSE e \in CodeTable : e[1] = c)[2]

IsCode(b) == \E e \in CodeTable : e[2] = b

Chr(b) == (CHOOSE e \in CodeTable : e[2] = b)[1]

\* a str written between quotes as it is
EscapeNothing(str) == str

\* json.dumps of a str: quotes, with " \ and control characters escaped
RECURSIVE EscapeChars(_)
EscapeChars(str) ==
  IF str = <<>> THEN <<>>
  ELSE LET c == Head(str)
           e == CASE c = "\"" -> <<"\\", "\"">>
                  [] c = "\\" -> <<"\\", "\\">>
                  [] c = "\n" -> <<"\\", "n">>
                  [] c = "\t" -> <<"\\", "t">>
                  [] OTHER -> <<c>>
       IN e \o EscapeChars(Tail(str))

dumps_str(str) == <<"\"">> \o EscapeChars(str) \o <<"\"">>

\* the items of a list, each already serialised, joined by the separator ','
RECURSIVE JoinItems(_)
JoinItems(items) ==
  IF items = <<>> THEN <<>>
  ELSE IF Len(items) = 1 THEN Head(items)
  ELSE Head(items) \o <<",">> \o JoinItems(Tail(items))

dumps_list(items) == <<"[">> \o JoinItems(items) \o <<"]">>

RECURSIVE MapDumpsStr(_)
MapDumpsStr(strs) ==
  IF strs = <<>> THEN <<>>
  ELSE <<dumps_str(Head(strs))>> \o MapDumpsStr(Tail(strs))

dumps_block(block) ==
  dumps_list(<<dumps_str(block[1]), dumps_list(MapDumpsStr(block[2]))>>)

RECURSIVE MapDumpsBlock(_)
MapDumpsBlock(pk) ==
  IF pk = <<>> THEN <<>>
  ELSE <<dumps_block(Head(pk))>> \o MapDumpsBlock(Tail(pk))

\* json.dumps(pseudocode_sourcepack, separators=(',', ':'))
json_dumps(pk) == dumps_list(MapDumpsBlock(pk))

\* json.loads, for documents made of arrays and strings.  A parse yields
\* [ok, val, next]: next is the position after the value.
ParseFail == [ok |-> FALSE, val |-> <<>>, next |-> 0]

RECURSIVE ScanString(_, _, _)
ScanString(text, i, acc) ==
  IF i > Len(text) THEN ParseFail
  ELSE IF text[i] = "\"" THEN [ok |-> TRUE, val |-> acc, next |-> i + 1]
  ELSE IF text[i] = "\\"
  THEN IF i + 1 > Len(text) THEN ParseFail
       ELSE IF text[i + 1] \in {"\"", "\\"}
       THEN ScanString(text, i + 2, Append(acc, text[i + 1]))
       ELSE IF text[i + 1] = "n" THEN ScanString(text, i + 2, Append(acc, "\n"))
       ELSE IF text[i + 1] = "t" THEN ScanString(text, i + 2, Append(acc, "\t"))
       ELSE ParseFail
  ELSE IF text[i] \in {"\n", "\t"} THEN ParseFail
  ELSE ScanString(text, i + 1, Append(acc, text[i]))

RECURSIVE ParseValue(_, _)
RECURSIVE ParseItems(_, _, _)
ParseValue(text, i0) ==
  LET i == SkipSpace(text, i0)
  IN IF i > Len(text) THEN ParseFail
     ELSE IF text[i] = "\"" THEN ScanString(text, i + 1, <<>>)
     ELSE IF text[i] = "["
     THEN LET j == SkipSpace(text, i + 1)
          IN IF j <= Len(text) /\ text[j] = "]"
             THEN [ok |-> TRUE, val |-> <<>>, next |-> j + 1]
             ELSE ParseItems(text, j, <<>>)
     ELSE ParseFail

ParseItems(text, i, acc) ==
  LET item == ParseValue(text, i)
  IN IF ~item.ok THEN ParseFail
     ELSE LET j == SkipSpace(text, item.next)
          IN IF j > Len(text) THEN ParseFail
             ELSE IF text[j] = "," THEN ParseItems(text, j + 1, Append(acc, item.val))
             ELSE IF text[j] = "]"
             THEN [ok |-> TRUE, val |-> Append(acc, item.val), next |-> j + 1]
             ELSE ParseFail

json_loads(text) ==
  LET doc == ParseValue(text, 1)
  IN IF doc.ok /\ SkipSpace(text, doc.next) > Len(text)
     THEN Return(doc.val)
     ELSE Raise("JSONDecodeError")

\* str.encode("utf-8") and bytes.decode("utf-8") over the model's characters
encode_utf8(text) == <<>> \o [i \in 1..Len(text) |-> Ord(text[i])]

ChrAll(bytes) == <<>> \o [i \in 1..Len(bytes) |-> Chr(bytes[i])]

decode_utf8(bytes) ==
  IF \A i \in 1..Len(bytes) : IsCode(bytes[i])
  THEN Return(ChrAll(bytes))
  ELSE Raise("UnicodeDecodeError")

\* the Adler-32 checksum of the zlib container
AdlerBase == 65521

\* the sum of weight * byte over the positions lo..hi, the weight of
\* position i being 1 (each) or the number of positions from i on
RECURSIVE AdlerSum(_, _, _, _)
AdlerSum(bytes, lo, hi, each) ==
  IF lo > hi THEN 0
  ELSE IF lo = hi
  THEN (IF each THEN 1 ELSE Len(bytes) - lo + 1) * bytes[lo]
  ELSE LET mid == (lo + hi) \div 2
       IN AdlerSum(bytes, lo, mid, each) + AdlerSum(bytes, mid + 1, hi, each)

\* a = 1 + the bytes, b = the sum of the values a takes, both mod 65521
adler32(bytes) ==
  LET a == (1 + AdlerSum(bytes, 1, Len(bytes), TRUE)) % AdlerBase
      b == (Len(bytes) + AdlerSum(bytes, 1, Len(bytes), FALSE)) % AdlerBase
  IN <<b \div 256, b % 256, a \div 256, a % 256>>

\* zlib.compress: the zlib container (header, deflate data, Adler-32) around
\* the data, the deflate data being one final stored block
ZlibHeader == <<120, 156>>

zlib_compress(bytes) ==
  LET n == Len(bytes)
  IN ZlibHeader
     \o <<1, n % 256, n \div 256, 255 - (n % 256), 255 - (n \div 256)>>
     \o bytes
     \o adler32(bytes)

\* zlib.decompress of such a container
zlib_decompress(bytes) ==
  LET total == Len(bytes)
      n == bytes[4] + 256 * bytes[5]
      data == SubSeq(bytes, 8, 7 + n)
  IN IF /\ total >= 11
        /\ bytes[1] = 120
        /\ (bytes[1] * 256 + bytes[2]) % 31 = 0
        /\ (bytes[2] \div 32) % 2 = 0
        /\ bytes[3] = 1
        /\ bytes[6] = 255 - bytes[4]
        /\ bytes[7] = 255 - bytes[5]
        /\ total = 11 + n
        /\ SubSeq(bytes, 8 + n, total) = adler32(data)
     THEN Return(data)
     ELSE Raise("zlib.error")

\* bytes.hex() and bytes.fromhex()
HexDigits == <<"0", "1", "2", "3", "4", "5", "6", "7",
               "8", "9", "a", "b", "c", "d", "e", "f">>

bytes_hex(bytes) ==
  <<>> \o [i \in 1..(2 * Len(bytes)) |->
            IF i % 2 = 1
            THEN HexDigits[(bytes[(i + 1) \div 2] \div 16) + 1]
            ELSE HexDigits[(bytes[i \div 2] % 16) + 1]]

IsHexDigit(c) == \E v \in 1..16 : HexDigits[v] = c

HexValue(c) == (CHOOSE v \in 1..16 : HexDigits[v] = c) - 1

HexPairs(hex) ==
  <<>> \o [i \in 1..(Len(hex) \div 2) |->
            16 * HexValue(hex[2 * i - 1]) + HexValue(hex[2 * i])]

bytes_fromhex(hex) ==
  IF Len(hex) % 2 = 0 /\ \A i \in 1..Len(hex) : IsHexDigit(hex[i])
  THEN Return(HexPairs(hex))
  ELSE Raise("ValueError")

\* lines 154-157 of generate_pack_encoded: dumps, encode, compress, hex
pack_encode(pseudocode_sourcepack) ==
  bytes_hex(zlib_compress(encode_utf8(json_dumps(pseudocode_sourcepack))))

generate_pack_encoded(pseudocode_sourcelines, name) ==
  LET pseudocode_sourcepack == deal_with(pseudocode_sourcelines, name)
  IN IF pseudocode_sourcepack.exc # NoExc THEN pseudocode_sourcepack
     ELSE Return(pack_encode(pseudocode_sourcepack.value))

pack_decode_from(pseudocode_pack_encoded) ==
  LET raw == bytes_fromhex(pseudocode_pack_encoded)
  IN IF raw.exc # NoExc THEN raw
     ELSE LET source_bytes == zlib_decompress(raw.value)
          IN IF source_bytes.exc # NoExc THEN source_bytes
             ELSE LET text == decode_utf8(source_bytes.value)
                  IN IF text.exc # NoExc THEN text
                     ELSE json_loads(text.value)

\* ------------------------------------------------------- inputs
\* sequences over S of length at most n
SeqsUpTo(S, n) == UNION {[1..k -> S] : k \in 0..n}

DefF == <<"d", "e", "f", " ", "f", "(", "x", ")", ":">>
DefG == <<" ", "d", "e", "f", " ", "g", "(", " ", "y", " ", ")", ":">>
LineA == <<" ", " ", "a">>
LineB == <<" ", " ", " ", "b", " ", "\n">>
LineQ == <<"\t", "\"", "q", "\"", "\n">>
MarkerS == <<" ", " ", "#", "#", "#", " ", "s", "\n">>
MarkerBare == <<"#", "#", "#">>
NotMarker == <<" ", "a", " ", "#", "#", "#">>
Empty == <<>>
Blank == <<" ", "\n">>

LineChoices ==
  {DefF, DefG, LineA, LineB, LineQ, MarkerS, MarkerBare, NotMarker, Empty, Blank}

FuncNames == {<<"f">>, <<"g">>}

\* ------------------------------------------------------- the rule alone
InitRule ==
  /\ pc = "rule"
  /\ source_lines \in SeqsUpTo(LineChoices, MaxLines)
  /\ func_name \in FuncNames
  /\ has_source_lines = TRUE
  /\ dumped_pack_encoded = <<>>
  /\ sourcepack = None
  /\ codec_pack = <<>>
  /\ codec_encoded = <<>>
  /\ codec_decoded = None
  /\ pack = None
  /\ warn_log = <<>>
  /\ accesses = 0
  /\ call = NoCall
  /\ result = None
  /\ depth = 0

\* pseudocode_rule().deal_with(pseudocode_sourcelines, func)
DealWith ==
  /\ pc = "rule"
  /\ sourcepack' = deal_with(source_lines, func_name)
  /\ pc' = "rule_done"
  /\ UNCHANGED <<source_lines, func_name, has_source_lines, dumped_pack_encoded,
                 codec_pack, codec_encoded, codec_decoded, pack, warn_log,
                 accesses, call, result, depth>>

NextRule == DealWith

SpecRule == InitRule /\ [][NextRule]_vars

\* ------------------------------------------------------- the codec alone
LabelChoices == {<<>>, <<"s", "\"">>}

TextChoices == {<<>>, <<"\t", "\"", "a", "\\">>}

BlockChoices ==
  {<<label, lines>> : label \in LabelChoices,
                      lines \in SeqsUpTo(TextChoices, MaxBodyLines)}

InitCodec ==
  /\ pc = "codec"
  /\ source_lines = <<>>
  /\ func_name = <<"f">>
  /\ has_source_lines = FALSE
  /\ dumped_pack_encoded = <<>>
  /\ sourcepack = None
  /\ codec_pack \in SeqsUpTo(BlockChoices, MaxBlocks)
  /\ codec_encoded = <<>>
  /\ codec_decoded = None
  /\ pack = None
  /\ warn_log = <<>>
  /\ accesses = 0
  /\ call = NoCall
  /\ result = None
  /\ depth = 0

\* lines 154-157 applied to a pack
Encode ==
  /\ pc = "codec"
  /\ codec_encoded' = pack_encode(codec_pack)
  /\ pc' = "encoded"
  /\ UNCHANGED <<source_lines, func_name, has_source_lines, dumped_pack_encoded,
                 sourcepack, codec_pack, codec_decoded, pack, warn_log,
                 accesses, call, result, depth>>

\* pseudocode_pack_base.pack_decode_from(pseudocode_pack_encoded)
Decode ==
  /\ pc = "encoded"
  /\ codec_decoded' = pack_decode_from(codec_encoded)
  /\ pc' = "decoded"
  /\ UNCHANGED <<source_lines, func_name, has_source_lines, dumped_pack_encoded,
                 sourcepack, codec_pack, codec_encoded, pack, warn_log,
                 accesses, call, result, depth>>

NextCodec == Encode \/ Decode

SpecCodec == InitCodec /\ [][NextCodec]_vars

\* ------------------------------------------------------- the pack object
\* {block[0]: block[1] for block in self._source_pack}: the last block of a
\* label is the one the label maps to
dict_index(source_pack) ==
  [label \in {source_pack[b][1] : b \in 1..Len(source_pack)} |->
    LET last == CHOOSE b \in 1..Len(source_pack) :
                  /\ source_pack[b][1] = label
                  /\ \A c \in 1..Len(source_pack) :
                       source_pack[c][1] = label => c <= b
    IN source_pack[last][2]]

\* _try_warning, called from the operation op: the instance and the log after it
try_warning(self, log, op) ==
  IF self._warning_update
  THEN [self |-> [self EXCEPT !.has_warning_update_info = TRUE],
        log |-> Append(log, op)]
  ELSE [self |-> self, log |-> log]

\* pseudocode_pack_base.__init__: the outcome and the log after it
pack_init(origin_pseudocode_pack_encoded, warning_update, log) ==
  LET decoded == pack_decode_from(origin_pseudocode_pack_encoded)
  IN IF decoded.exc # NoExc THEN [out |-> decoded, log |-> log]
     ELSE LET self == [_origin_pack_encoded |-> origin_pseudocode_pack_encoded,
                       _warning_update |-> warning_update,
                       _source_pack |-> decoded.value,
                       _dict_index |-> dict_index(decoded.value),
                       has_warning_update_info |-> FALSE]
              warned == try_warning(self, log, "__init__")
          IN [out |-> Return(warned.self), log |-> warned.log]

\* a lookup that answers a missing label with an empty list
getitem_or_empty(self, index) ==
  IF index \in DOMAIN self._dict_index
  THEN Return(self._dict_index[index])
  ELSE Return(<<>>)

\* __getitem__: self._dict_index[index]
getitem(self, index) ==
  IF index \in DOMAIN self._dict_index
  THEN Return(self._dict_index[index])
  ELSE Raise("KeyError")

RECURSIVE FlatLines(_)
FlatLines(source_pack) ==
  IF source_pack = <<>> THEN <<>>
  ELSE Head(source_pack)[2] \o FlatLines(Tail(source_pack))

\* __call__: what the generator yields, in order
call_yields(self, return_line) ==
  IF return_line THEN FlatLines(self._source_pack) ELSE self._source_pack

\* ------------------------------------------------------- the decorator
\* the comparison made whether or not the source was read
pack_arguments_always_compare(has_source, source_pack_encoded, dumped) ==
  [encoded |-> IF has_source THEN source_pack_encoded ELSE dumped,
   warning_update |-> (source_pack_encoded # dumped)]

\* the arguments pseudocode.__call__ constructs the pack with (lines 280-291)
pack_arguments(has_source, source_pack_encoded, dumped) ==
  IF has_source
  THEN [encoded |-> source_pack_encoded,
        warning_update |-> (source_pack_encoded # dumped)]
  ELSE [encoded |-> dumped, warning_update |-> FALSE]

\* source lines as inspect.getsourcelines yields them: newline terminated
SrcDefF == DefF \o <<"\n">>
SrcDefG == DefG \o <<"\n">>
SrcLineA == LineA \o <<"\n">>
SrcBlank == <<"\n">>

SourceChoices == {SrcDefF, SrcDefG, SrcLineA, LineB, MarkerS, SrcBlank}

PackA == <<<<<<"x">>, <<<<"a">>>>>>>>
PackAB == <<<<<<"x">>, <<<<"a">>>>>>, <<<<"s">>, <<<<" ", "b">>>>>>>>
PackBare == <<<<<<"x">>, <<>>>>>>

\* a stored string with its last hexadecimal digit changed
Corrupted(encoded) ==
  LET last == encoded[Len(encoded)]
  IN [encoded EXCEPT ![Len(encoded)] = IF last = "0" THEN "1" ELSE "0"]

DumpedChoices ==
  {pack_encode(PackA), pack_encode(PackAB), pack_encode(PackBare),
   Corrupted(pack_encode(PackA))}

Init ==
  /\ pc = "decorate"
  /\ source_lines \in SeqsUpTo(SourceChoices, MaxLines)
  /\ func_name = <<"f">>
  /\ has_source_lines \in BOOLEAN
  /\ dumped_pack_encoded \in DumpedChoices
  /\ sourcepack = None
  /\ codec_pack = <<>>
  /\ codec_encoded = <<>>
  /\ codec_decoded = None
  /\ pack = None
  /\ warn_log = <<>>
  /\ accesses = 0
  /\ call = NoCall
  /\ result = None
  /\ depth = 0

\* pseudocode.__call__(func)
Decorate ==
  /\ pc = "decorate"
  /\ call' = [NoCall EXCEPT !.op = "pseudocode.__call__"]
  /\ LET source_pack_encoded ==
           IF has_source_lines
           THEN generate_pack_encoded(source_lines, func_name)
           ELSE Return(<<>>)
     IN IF source_pack_encoded.exc # NoExc
        THEN /\ result' = source_pack_encoded
             /\ pc' = "raised"
             /\ UNCHANGED <<pack, warn_log>>
        ELSE LET args == pack_arguments(has_source_lines,
                                        source_pack_encoded.value,
                                        dumped_pack_encoded)
                 built == pack_init(args.encoded, args.warning_update, warn_log)
             IN /\ warn_log' = built.log
                /\ IF built.out.exc # NoExc
                   THEN /\ result' = built.out
                        /\ pc' = "raised"
                        /\ UNCHANGED pack
                   ELSE /\ pack' = built.out.value
                        /\ result' = Return(<<>>)
                        /\ pc' = "constructed"
  /\ UNCHANGED <<source_lines, func_name, has_source_lines, dumped_pack_encoded,
                 sourcepack, codec_pack, codec_encoded, codec_decoded,
                 accesses, depth>>

\* pack[index]
GetItem(index) ==
  /\ pc = "constructed"
  /\ accesses < MaxAccesses
  /\ call' = [NoCall EXCEPT !.op = "__getitem__", !.index = index]
  /\ result' = getitem(pack, index)
  /\ accesses' = accesses + 1
  /\ UNCHANGED <<pc, source_lines, func_name, has_source_lines,
                 dumped_pack_encoded, sourcepack, codec_pack, codec_encoded,
                 codec_decoded, pack, warn_log, depth>>

\* list(pack(return_line))
Call(return_line) ==
  /\ pc = "constructed"
  /\ accesses < MaxAccesses
  /\ call' = [NoCall EXCEPT !.op = "__call__", !.return_line = return_line]
  /\ result' = Return(call_yields(pack, return_line))
  /\ accesses' = accesses + 1
  /\ UNCHANGED <<pc, source_lines, func_name, has_source_lines,
                 dumped_pack_encoded, sourcepack, codec_pack, codec_encoded,
                 codec_decoded, pack, warn_log, depth>>

\* pack.origin_pack_sourcepack
OriginPackSourcepack ==
  /\ pc = "constructed"
  /\ accesses < MaxAccesses
  /\ call' = [NoCall EXCEPT !.op = "origin_pack_sourcepack"]
  /\ result' = Return(pack._source_pack)
  /\ accesses' = accesses + 1
  /\ UNCHANGED <<pc, source_lines, func_name, has_source_lines,
                 dumped_pack_encoded, sourcepack, codec_pack, codec_encoded,
                 codec_decoded, pack, warn_log, depth>>

\* pack.origin_pack_encoded: the property is entered
OriginPackEncoded ==
  /\ pc = "constructed"
  /\ accesses < MaxAccesses
  /\ call' = [NoCall EXCEPT !.op = "origin_pack_encoded"]
  /\ result' = None
  /\ depth' = 1
  /\ pc' = "origin_pack_encoded"
  /\ UNCHANGED <<source_lines, func_name, has_source_lines,
                 dumped_pack_encoded, sourcepack, codec_pack, codec_encoded,
                 codec_decoded, pack, warn_log, accesses>>

\* its body, "return self.origin_pack_encoded", enters the property again
OriginPackEncodedBody ==
  /\ pc = "origin_pack_encoded"
  /\ depth < RecursionLimit
  /\ depth' = depth + 1
  /\ UNCHANGED <<pc, source_lines, func_name, has_source_lines,
                 dumped_pack_encoded, sourcepack, codec_pack, codec_encoded,
                 codec_decoded, pack, warn_log, accesses, call, result>>

\* the interpreter's recursion limit ends the call with RecursionError
OriginPackEncodedOverflow ==
  /\ pc = "origin_pack_encoded"
  /\ depth = RecursionLimit
  /\ result' = Raise("RecursionError")
  /\ depth' = 0
  /\ accesses' = accesses + 1
  /\ pc' = "constructed"
  /\ UNCHANGED <<source_lines, func_name, has_source_lines,
                 dumped_pack_encoded, sourcepack, codec_pack, codec_encoded,
                 codec_decoded, pack, warn_log, call>>

IndexChoices == {<<"x">>, <<"s">>, <<"z">>}

Next ==
  \/ Decorate
  \/ \E index \in IndexChoices : GetItem(index)
  \/ \E return_line \in BOOLEAN : Call(return_line)
  \/ OriginPackSourcepack
  \/ OriginPackEncoded
  \/ OriginPackEncodedBody
  \/ OriginPackEncodedOverflow

Spec == Init /\ [][Next]_vars

\* ============================================================ properties
\* What the claims speak of, stated on the raw input rather than computed
\* by the operators above.

\* the first n characters of line are whitespace
Spaces(line, n) == n <= Len(line) /\ \A k \in 1..n : IsSpaceChar(line[k])

\* the number of leading whitespace characters
LeadingSpace(line) ==
  CHOOSE n \in 0..Len(line) :
    Spaces(line, n) /\ (n = Len(line) \/ ~IsSpaceChar(line[n + 1]))

\* line without its trailing whitespace
TrimRight(line) ==
  LET m == CHOOSE k \in 0..Len(line) :
             /\ k = 0 \/ ~IsSpaceChar(line[k])
             /\ \A j \in (k + 1)..Len(line) : IsSpaceChar(line[j])
  IN SubSeq(line, 1, m)

\* line is whitespace, "def", whitespace, name, "(", anything, "):"
Declares(line, name) ==
  \E i \in 0..Len(line), j \in 0..Len(line) :
    /\ Spaces(line, i)
    /\ HasAt(line, i + 1, <<"d", "e", "f">>)
    /\ \A k \in (i + 4)..(i + 3 + j) : k <= Len(line) /\ IsSpaceChar(line[k])
    /\ HasAt(line, i + 4 + j, name \o <<"(">>)
    /\ Len(line) >= i + 3 + j + Len(name) + 3
    /\ line[Len(line) - 1] = ")"
    /\ line[Len(line)] = ":"

\* line is whitespace, "###", anything
IsMarker(line) ==
  \E i \in 0..Len(line) : Spaces(line, i) /\ HasAt(line, i + 1, <<"#", "#", "#">>)

\* a line that is empty or holds whitespace only
IsBlank(line) == Spaces(line, Len(line))

\* the lines of the input that survive the filter of lines 97-100
Kept == {i \in 1..Len(source_lines) : ~isspace(source_lines[i])}

DeclLines ==
  {i \in Kept : Declares(TrimRight(source_lines[i]), func_name)}

DeclLine == CHOOSE i \in DeclLines : \A j \in DeclLines : i <= j

MarkerLines ==
  {i \in Kept : i > DeclLine /\ IsMarker(TrimRight(source_lines[i]))}

BodyLines ==
  {i \in Kept : i > DeclLine /\ ~IsMarker(TrimRight(source_lines[i]))}

RECURSIVE Ascending(_)
Ascending(S) ==
  IF S = {} THEN <<>>
  ELSE LET m == CHOOSE x \in S : \A y \in S : x <= y
       IN <<m>> \o Ascending(S \ {m})

\* the block a body line belongs to: one more than the markers before it
BlockOf(i) == 1 + Cardinality({m \in MarkerLines : m < i})

\* got is src with leading whitespace taken off
Dedented(got, src) ==
  \E n \in 0..Len(src) : Spaces(src, n) /\ got = SubSeq(src, n + 1, Len(src))

LeastIndent ==
  CHOOSE n \in {LeadingSpace(TrimRight(source_lines[i])) : i \in BodyLines} :
    \A i \in BodyLines : n <= LeadingSpace(TrimRight(source_lines[i]))

\* C1: decoding the encoding of a pack gives the pack back: the same labels,
\* the same lines, in the same order, also for the pack of no blocks and
\* for blocks of no lines.
C1_RoundTrip == pc = "decoded" => codec_decoded = Return(codec_pack)

C1_Witness ==
  /\ pc = "decoded"
  /\ Len(codec_pack) = 2
  /\ codec_pack[1][2] = <<>>
  /\ Len(codec_pack[2][2]) = 2
  /\ \E k \in 1..Len(codec_pack[2][2][1]) : codec_pack[2][2][1][k] = "\""
  /\ codec_decoded = Return(codec_pack)

\* C2 (as claimed): whenever the input has a declaration line of the
\* function, deal_with returns blocks in source order: the first labelled
\* with the parameter text, one more per marker line in order, and every
\* body line in the block of the nearest marker before it, in order.
C2_Claim ==
  (pc = "rule_done" /\ DeclLines # {}) =>
    /\ sourcepack.exc = NoExc
    /\ LET pk == sourcepack.value
           markers == Ascending(MarkerLines)
       IN /\ Len(pk) = 1 + Len(markers)
          /\ pk[1][1] = clip_start_marker(TrimRight(source_lines[DeclLine]))
          /\ \A k \in 1..Len(markers) :
               pk[k + 1][1] = clip_marker(TrimRight(source_lines[markers[k]]))
          /\ \A b \in 1..Len(pk) :
               LET mine == Ascending({i \in BodyLines : BlockOf(i) = b})
               IN /\ Len(pk[b][2]) = Len(mine)
                  /\ \A j \in 1..Len(mine) :
                       Dedented(pk[b][2][j], TrimRight(source_lines[mine[j]]))

\* C5: when no line of the input fully matches the declaration pattern of
\* the requested name, deal_with raises (IndexError, from the search for
\* the head line) and yields no pack, not even a partial one.
C5_NoDeclarationRaises ==
  (pc = "rule_done" /\ DeclLines = {}) => sourcepack = Raise("IndexError")

C5_Witness ==
  /\ pc = "rule_done"
  /\ DeclLines = {}
  /\ \E i \in Kept, other \in FuncNames \ {func_name} :
       Declares(TrimRight(source_lines[i]), other)
  /\ \E i \in Kept : ~IsMarker(TrimRight(source_lines[i]))
  /\ sourcepack = Raise("IndexError")

\* C7 (as claimed): when the declaration is followed by no body line (by
\* nothing, or by marker lines only) the least indentation is 0 and
\* deal_with returns the blocks with their labels and empty bodies.
C7_Claim ==
  (pc = "rule_done" /\ DeclLines # {} /\ BodyLines = {}) =>
    /\ sourcepack.exc = NoExc
    /\ Len(sourcepack.value) = 1 + Cardinality(MarkerLines)
    /\ \A b \in 1..Len(sourcepack.value) : sourcepack.value[b][2] = <<>>

\* C8: with at least one body line, every body line of the returned pack is
\* its source line, trailing whitespace stripped, without its first
\* least_indent characters, least_indent being the least count of leading
\* whitespace over all body lines; what is removed is whitespace, no line
\* is emptied, and some body line of the pack starts at column 0.
C8_LeastIndentRemoved ==
  (pc = "rule_done" /\ DeclLines # {} /\ BodyLines # {}) =>
    /\ sourcepack.exc = NoExc
    /\ LET body == Ascending(BodyLines)
           flat == FlatLines(sourcepack.value)
       IN /\ Len(flat) = Len(body)
          /\ \A j \in 1..Len(body) :
               LET src == TrimRight(source_lines[body[j]])
               IN /\ Spaces(src, LeastIndent)
                  /\ flat[j] = SubSeq(src, LeastIndent + 1, Len(src))
                  /\ flat[j] = <<>> => src = <<>>
          /\ \E j \in 1..Len(flat) : LeadingSpace(flat[j]) = 0

C8_Witness ==
  /\ pc = "rule_done"
  /\ DeclLines # {}
  /\ Cardinality(BodyLines) >= 2
  /\ LeastIndent >= 2
  /\ \E i \in BodyLines : LeadingSpace(TrimRight(source_lines[i])) > LeastIndent
  /\ source_lines[Len(source_lines)] = TrimRight(source_lines[Len(source_lines)])
  /\ LeadingSpace(source_lines[Len(source_lines)]) = LeastIndent
  /\ sourcepack.exc = NoExc

\* C9 (as claimed): blank lines, empty or of whitespace only, are dropped
\* before the search and the segmentation: the pack holds exactly the
\* non-blank body lines, none of them empty or whitespace-only, none with
\* trailing whitespace.
C9_Claim ==
  (pc = "rule_done" /\ sourcepack.exc = NoExc) =>
    LET flat == FlatLines(sourcepack.value)
    IN /\ Len(flat) =
            Cardinality({i \in BodyLines : ~IsBlank(source_lines[i])})
       /\ \A j \in 1..Len(flat) :
            /\ ~IsBlank(flat[j])
            /\ flat[j] = TrimRight(flat[j])

\* the labels the blocks of a pack carry
LabelsOf(source_pack) == {source_pack[b][1] : b \in 1..Len(source_pack)}

Constructed == pc \in {"constructed", "origin_pack_encoded"}

\* C3 (as claimed): with drift, constructing the pack emits no notification,
\* the first accessor call emits exactly one, and later calls emit none.
C3_Claim ==
  (Constructed /\ pack._warning_update) =>
    /\ accesses = 0 => warn_log = <<>>
    /\ (accesses = 1 /\ call.op \in {"__getitem__", "__call__"}) =>
         warn_log = <<call.op>>
    /\ Len(warn_log) <= 1

\* C4: when the source lines cannot be obtained, nothing is compared, the
\* pack is the decoding of the stored string, kept unchanged, and no
\* notification is emitted at construction or by any accessor call after.
C4_NoSourceNoDrift ==
  ~has_source_lines =>
    /\ warn_log = <<>>
    /\ Constructed =>
         /\ pack._origin_pack_encoded = dumped_pack_encoded
         /\ ~pack._warning_update
         /\ ~pack.has_warning_update_info
         /\ \E stored \in {PackA, PackAB, PackBare} :
              /\ dumped_pack_encoded = pack_encode(stored)
              /\ pack._source_pack = stored

C4_Witness ==
  /\ ~has_source_lines
  /\ pc = "constructed"
  /\ accesses >= 2
  /\ call.op = "__getitem__"
  /\ pack._source_pack = PackAB
  /\ generate_pack_encoded(source_lines, func_name).exc = NoExc
  /\ generate_pack_encoded(source_lines, func_name).value # dumped_pack_encoded
  /\ warn_log = <<>>

C10_Claim ==
  (pc = "constructed" /\ call.op = "origin_pack_encoded") =>
    result = Return(pack._origin_pack_encoded)

====
